---- MODULE Spec2Model ----
(***************************************************************************)
(* Model of the reduced FITS reader and the Lambert map sampler of         *)
(* src/src/MWgaldust.c: the file handle table, the windowed and the        *)
(* single-point data readers (fits_read_subimg_, fits_read_point_)         *)
(* and the sampler lambert_getval with lambert_lb2pix.                     *)
(*                                                                         *)
(* The specifications share the variables:                               *)
(*   SpecIO   any sequence of inoutput_open_file / inoutput_close_file     *)
(*   SpecCall the readers as users of the file handle table                *)
(*   SpecRd   fits_read_subimg_ and fits_read_point_ on one file           *)
(*   SpecGv   lambert_getval on one batch, per-point and bulk              *)
(*   SpecCut  lambert_getval on files cut short                            *)
(*   SpecBp   the readers under every BITPIX code                          *)
(*   SpecWr   fits_write_file_fits_noscale_                                *)
(*   SpecHd   the operations on the cards of a header                      *)
(*   SpecRt   a header written to a file and read back                     *)
(*   SpecCap  the buffer of a header under adds and deletes                *)
(***************************************************************************)
EXTENDS Integers, Sequences, FiniteSets, TLC

VARIABLES pFILEfits, memAfter, disk, io, rd, gv, hd

vars == <<pFILEfits, memAfter, disk, io, rd, gv, hd>>

(***************************************************************************)
(* Bounds of the model.                                                    *)
(***************************************************************************)
\* number of entries of pFILEfits (the header that sets IO_FOPEN_MAX is not
\* part of the sources; the model keeps the table small)
IO_FOPEN_MAX == 3

Min(a, b) == IF a < b THEN a ELSE b
Max(a, b) == IF a > b THEN a ELSE b

(***************************************************************************)
(* File handle table.                                                      *)
(*   pFILEfits  the array FILE *pFILEfits[IO_FOPEN_MAX]: NULL or the path  *)
(*              of the file the handle is open on                          *)
(*   memAfter   the two words of memory that follow the array: indices     *)
(*              IO_FOPEN_MAX and IO_FOPEN_MAX+1 of pFILEfits.  Their       *)
(*              initial content is not determined by the program.          *)
(*   disk       the set of paths that exist                                *)
(*   io         the last call, its arguments, the table it was called on   *)
(*              (before) and what it returned                              *)
(***************************************************************************)
NULL == "NULL"
JUNK == "junk"
IO_GOOD == "IO_GOOD"
IO_BAD == "IO_BAD"
Paths == {"fileN", "fileS"}
Slots == 0 .. (IO_FOPEN_MAX - 1)

\* pFILEfits[i] as the machine reads it, for any index the code uses
Cell(tab, mem, i) == IF i < IO_FOPEN_MAX THEN tab[i] ELSE mem[i]

\* the loop of inoutput_free_file_pointer_, from retval
RECURSIVE ScanFree(_, _, _)
ScanFree(tab, mem, retval) ==
  IF retval <= IO_FOPEN_MAX /\ Cell(tab, mem, retval) # NULL
  THEN ScanFree(tab, mem, retval + 1)
  ELSE retval

inoutput_free_file_pointer_(tab, mem) == ScanFree(tab, mem, 0)

\* the largest index of pFILEfits the scan reads
ScanLastRead(tab, mem) == Min(inoutput_free_file_pointer_(tab, mem), IO_FOPEN_MAX)

\* the existence test answering IO_GOOD for every path
inoutput_file_exist_m(dsk, path) == IO_GOOD

\* access(pFileName, F_OK) == 0
inoutput_file_exist(dsk, path) == IF path \in dsk THEN IO_GOOD ELSE IO_BAD

\* pFILEfits[n] = h, wherever index n lands
Store(tab, mem, n, h) ==
  IF n < IO_FOPEN_MAX
  THEN [tab |-> [tab EXCEPT ![n] = h], mem |-> mem]
  ELSE [tab |-> tab, mem |-> [mem EXCEPT ![n] = h]]

\* inoutput_open_file; fopenOk is whether the C library's fopen succeeds
inoutput_open_file(tab, mem, dsk, path, priv, fopenOk) ==
  LET n == inoutput_free_file_pointer_(tab, mem)
      h == IF fopenOk THEN path ELSE NULL
      st == Store(tab, mem, n, h)
  IN IF n = IO_FOPEN_MAX
     THEN [retval |-> IO_BAD, filenum |-> n, tab |-> tab, mem |-> mem, dsk |-> dsk]
     ELSE IF priv = "r"
          THEN IF inoutput_file_exist(dsk, path) = IO_GOOD
               THEN [retval |-> IF fopenOk THEN IO_GOOD ELSE IO_BAD, filenum |-> n,
                     tab |-> st.tab, mem |-> st.mem, dsk |-> dsk]
               ELSE [retval |-> IO_BAD, filenum |-> n, tab |-> tab, mem |-> mem,
                     dsk |-> dsk]
          ELSE [retval |-> IF fopenOk THEN IO_GOOD ELSE IO_BAD, filenum |-> n,
                tab |-> st.tab, mem |-> st.mem,
                dsk |-> IF fopenOk THEN dsk \cup {path} ELSE dsk]

\* a close that leaves the handle in the table
inoutput_close_file_m(tab, mem, filenum) == [tab |-> tab, mem |-> mem]

\* inoutput_close_file
inoutput_close_file(tab, mem, filenum) == Store(tab, mem, filenum, NULL)

\* handles that are open, in the array or stored behind it
OpenCount(tab, mem) ==
  Cardinality({i \in Slots : tab[i] \in Paths})
  + Cardinality({i \in DOMAIN mem : mem[i] \in Paths})

(***************************************************************************)
(* Binary data layer.                                                      *)
(*                                                                         *)
(* A map file is [len, base]: a header of one 2880-byte block followed by  *)
(* len data elements; element k of the data block holds the raw value      *)
(* base + k, so that every element of a file is told apart from every      *)
(* other and from the elements of the other file.  Bytes of the header     *)
(* block read as if they were data hold values below HdrRawTop.            *)
(* A header is the record of the card values the readers look up:          *)
(*   naxis   the extents NAXIS1..NAXISn (NAXIS = Len(naxis))               *)
(*   bitpix, bscale, bzero (ABSENT when the header has no such card)       *)
(*   ctype   whether CTYPE1/CTYPE2 name a supported projection             *)
(* Positions in a file are byte offsets.                                   *)
(***************************************************************************)
BlockBytes == 2880
HdrRawTop == 0 - 1000
\* a card value is << >> when the header has no such card, <<v>> otherwise
ABSENT == << >>

\* bounds on the images of the model
MaxRank == 2
MaxNaxis == 3

fits_size_from_bitpix_(bitpix) ==
  CASE bitpix = 8 -> 1
    [] bitpix = 16 -> 2
    [] bitpix = 32 -> 4
    [] bitpix = 64 -> 8
    [] bitpix = 0 - 16 -> 2
    [] bitpix = 0 - 32 -> 4
    [] bitpix = 0 - 64 -> 8
    [] OTHER -> 0

fits_get_rval_(raw, bitpix, bscale, bzero) ==
  CASE bitpix = 0 - 32 -> raw
    [] bitpix = 16 -> raw * bscale + bzero
    [] bitpix = 32 -> raw * bscale + bzero
    [] bitpix = 0 - 64 -> raw
    [] bitpix = 8 -> raw * bscale + bzero
    [] bitpix = 0 - 8 -> raw
    [] OTHER -> 0

\* fits_get_card_rval_ of BSCALE / BZERO with the default the readers use
CardOr(v, dflt) == IF v = ABSENT THEN dflt ELSE v[1]

\* product of the first k extents
RECURSIVE Prod(_, _)
Prod(pNaxis, k) == IF k <= 0 THEN 1 ELSE pNaxis[k] * Prod(pNaxis, k - 1)

\* number of elements of the window [pStart, pEnd] over the first k axes
RECURSIVE WinCount(_, _, _)
WinCount(pStart, pEnd, k) ==
  IF k <= 0 THEN 1 ELSE (pEnd[k] - pStart[k] + 1) * WinCount(pStart, pEnd, k - 1)

FileBytes(f, size) == BlockBytes + f.len * size

\* the stored value of the element that starts at byte pos
RawAt(f, pos, size) ==
  IF pos < BlockBytes THEN HdrRawTop - f.base - pos
  ELSE f.base + ((pos - BlockBytes) \div size)

\* fseek(fp, target, SEEK_SET): fails, leaving the position, when target < 0
fseek(pos, target) == IF target < 0 THEN pos ELSE target

\* the number of whole elements fread(buf, size, n, fp) transfers at pos
freadCount(f, pos, size, n) ==
  IF size = 0 \/ n <= 0 \/ pos >= FileBytes(f, size) THEN 0
  ELSE Min(n, (FileBytes(f, size) - pos) \div size)

\* fits_skip_header_ on a file whose header is one block ending in END
fits_skip_header_(f) == BlockBytes

\* the trailing skip with the last element of the window left out of it
SkipAfter_m(nel, pNaxis, pEnd) == (pNaxis[nel] - pEnd[nel]) * Prod(pNaxis, nel - 1)

\* the two skips of fits_read_subimg1, in elements
SkipBefore(nel, pNaxis, pStart) == pStart[nel] * Prod(pNaxis, nel - 1)
SkipAfter(nel, pNaxis, pEnd) == (pNaxis[nel] - pEnd[nel] - 1) * Prod(pNaxis, nel - 1)

\* the one element of a singleton set; { e(x) : x \in {v} } binds x to the
\* value of v, which is then computed once however often e uses it
TheOne(S) == CHOOSE x \in S : TRUE

\* the fread of fits_read_subimg1: appends what was read at pData[*pNVal]
ReadRun(f, size, nread, st) ==
  TheOne({ LET n == freadCount(f, s.pos, size, nread)
           IN [pos |-> s.pos + n * size,
               buf |-> s.buf \o [k \in 1 .. n |-> RawAt(f, s.pos + (k - 1) * size, size)]]
           : s \in {st} })

\* fits_read_subimg1: st = [pos, buf], buf the filled part of pData, so that
\* *pNVal = Len(buf).  Axis nel of the code's pNaxis[nel-1] is pNaxis[nel].
RECURSIVE fits_read_subimg1(_, _, _, _, _, _, _)
RECURSIVE SubimgLoop(_, _, _, _, _, _, _, _)
SubimgLoop(iloop, nel, pNaxis, pStart, pEnd, f, size, st) ==
  IF iloop <= 0 THEN st
  ELSE SubimgLoop(iloop - 1, nel, pNaxis, pStart, pEnd, f, size,
                  fits_read_subimg1(nel - 1, pNaxis, pStart, pEnd, f, size, st))

fits_read_subimg1(nel, pNaxis, pStart, pEnd, f, size, st) ==
  LET before(s0) ==
        [s0 EXCEPT !.pos = fseek(s0.pos, s0.pos + size * SkipBefore(nel, pNaxis, pStart))]
      body(s1) ==
        IF nel > 1
        THEN SubimgLoop(pEnd[nel] - pStart[nel] + 1, nel, pNaxis, pStart, pEnd,
                        f, size, s1)
        ELSE ReadRun(f, size, pEnd[1] - pStart[1] + 1, s1)
      after(s2) ==
        [s2 EXCEPT !.pos = fseek(s2.pos, s2.pos + size * SkipAfter(nel, pNaxis, pEnd))]
  IN TheOne({ after(s2) : s2 \in { body(s1) : s1 \in { before(s0) : s0 \in {st} } } })

\* the count read returned in place of the deficit
SubimgRetval_m(nExpect, nVal) == nVal

\* the value fits_read_subimg_ returns
SubimgRetval(nExpect, nVal) == nExpect - nVal

\* fits_read_subimg_ on an opened file: vals is the filled part of *ppVal
fits_read_subimg_(f, hdr, pStart, pEnd) ==
  LET numAxes == Len(hdr.naxis)
      nExpect == WinCount(pStart, pEnd, numAxes)
      size == fits_size_from_bitpix_(hdr.bitpix)
      bscale == CardOr(hdr.bscale, 1)
      bzero == CardOr(hdr.bzero, 0)
  IN TheOne({ [retval |-> SubimgRetval(nExpect, Len(st.buf)),
               nVal |-> Len(st.buf),
               nExpect |-> nExpect,
               vals |-> IF hdr.bitpix = 0 - 32 THEN st.buf
                        ELSE [k \in 1 .. Len(st.buf) |->
                                fits_get_rval_(st.buf[k], hdr.bitpix, bscale, bzero)],
               pos |-> st.pos]
              : st \in { fits_read_subimg1(numAxes, hdr.naxis, pStart, pEnd, f, size,
                                            [pos |-> fits_skip_header_(f), buf |-> << >>]) } })

\* the term of an axis with nmult left at 1
PointTerm_m(pLoc, pNaxis, k) == pLoc[k]

\* pLoc[iAxis] * nmult, nmult being the product of the extents before iAxis
PointTerm(pLoc, pNaxis, k) == pLoc[k] * Prod(pNaxis, k - 1)

\* the row-major index fits_read_point_ computes from pLoc
RECURSIVE PointIloc(_, _, _)
PointIloc(pLoc, pNaxis, k) ==
  IF k <= 0 THEN 0
  ELSE PointIloc(pLoc, pNaxis, k - 1) + PointTerm(pLoc, pNaxis, k)

\* fits_read_point_ on an opened file; garbage is the content of the
\* malloc'ed element when fread transfers nothing
fits_read_point_(f, hdr, pLoc, garbage) ==
  LET numAxes == Len(hdr.naxis)
      iloc == PointIloc(pLoc, hdr.naxis, numAxes)
      size == fits_size_from_bitpix_(hdr.bitpix)
      ipos == fits_skip_header_(f)
      pos == fseek(ipos, ipos + size * iloc)
      n == freadCount(f, pos, size, 1)
      raw == IF n = 1 THEN RawAt(f, pos, size) ELSE garbage
      bscale == CardOr(hdr.bscale, 1)
      bzero == CardOr(hdr.bzero, 0)
  IN [retval |-> 1 - n,
      value |-> IF hdr.bitpix = 0 - 32 THEN raw
                ELSE fits_get_rval_(raw, hdr.bitpix, bscale, bzero),
      pos |-> pos + n * size]

(***************************************************************************)
(* Map sampler.                                                            *)
(*                                                                         *)
(* Pixel positions are fixed-point numbers in units of 1/Den pixel, and    *)
(* the arithmetic on them is exact (the rounding of float is not           *)
(* modelled).  A direction is [b, xr, yr]: the sign of its galactic        *)
(* latitude and the fractional pixel position that the projection          *)
(* formulas of lambert_lb2fpix give for it under a header of a supported   *)
(* projection; the trigonometry itself is not modelled.                    *)
(* Bilinear weights are in units of 1/Den^2 and an interpolated output is  *)
(* the weighted sum in the same unit.                                      *)
(***************************************************************************)
Den == 2
MaxGal == 2

\* (int)(xr): conversion to int truncates toward zero
TruncInt(a) == IF a >= 0 THEN a \div Den ELSE 0 - ((0 - a) \div Den)

\* (int)floor(xr + 0.5)
RoundPix(a) == (2 * a + Den) \div (2 * Den)

\* the hemisphere test sending the equator south
PNS_m(b) == IF b > 0 THEN 0 ELSE 1

\* pNS[iGal]: 0 for the NGP file, 1 for the SGP file
PNS(b) == IF b >= 0 THEN 0 ELSE 1

FileOf_m(iloop) == "fileN"

FileOf(iloop) == IF iloop = 0 THEN "fileN" ELSE "fileS"

\* the value -99.0 of an unsupported projection
Sentinel == (0 - 99) * Den

\* lambert_lb2fpix: the projection branches give the position of the
\* direction, any other CTYPE pair gives (-99, -99)
lambert_lb2fpix(dir, hdr) ==
  IF hdr.ctype THEN <<dir.xr, dir.yr>> ELSE <<Sentinel, Sentinel>>

\* the bound forced by lambert_lb2pix on one axis
ClampPix(ip, naxis) == IF ip >= naxis THEN naxis - 1 ELSE ip

lambert_lb2pix(dir, hdr) ==
  LET fp == lambert_lb2fpix(dir, hdr)
  IN <<ClampPix(RoundPix(fp[1]), hdr.naxis[1]), ClampPix(RoundPix(fp[2]), hdr.naxis[2])>>

\* the corner with the clamp at the upper edge one pixel late
InterpCorner_m(a, n) ==
  LET p0 == TruncInt(a)
      d0 == p0 * Den - a + Den
      p1 == IF p0 < 0 THEN 0 ELSE p0
      d1 == IF p0 < 0 THEN Den ELSE d0
  IN [pix |-> IF p1 > n - 1 THEN n - 2 ELSE p1,
      d |-> IF p1 > n - 1 THEN 0 ELSE d1]

\* per-point interpolation, one axis: the corner pixel and the offset dx
InterpCorner(a, n) ==
  LET p0 == TruncInt(a)
      d0 == p0 * Den - a + Den
      p1 == IF p0 < 0 THEN 0 ELSE p0
      d1 == IF p0 < 0 THEN Den ELSE d0
  IN [pix |-> IF p1 >= n - 1 THEN n - 2 ELSE p1,
      d |-> IF p1 >= n - 1 THEN 0 ELSE d1]

\* bulk interpolation, one axis: pXPix[ii] and pDX[ii]
InterpCornerBulk(a, n) ==
  LET p0 == TruncInt(a)
      d0 == p0 * Den - a + Den
      p1 == IF p0 < 0 THEN 0 ELSE p0
      d1 == IF p0 < 0 THEN Den ELSE d0
  IN [pix |-> IF p1 >= n - 1 THEN n - 2 ELSE p1,
      d |-> IF p1 >= n - 1 THEN 0 ELSE d1]

\* the weights with dx and 1-dx exchanged
Weights_m(dx, dy) ==
  <<(Den - dx) * dy, dx * dy, (Den - dx) * (Den - dy), dx * (Den - dy)>>

\* pWeight[0..3]
Weights(dx, dy) ==
  <<dx * dy, (Den - dx) * dy, dx * (Den - dy), (Den - dx) * (Den - dy)>>

\* element j of a buffer of which only the first Len(vals) elements were
\* filled; the rest of the malloc'ed buffer holds garbage
BufAt(vals, j, garbage) == IF j >= 1 /\ j <= Len(vals) THEN vals[j] ELSE garbage

ivector_minimum(v) == CHOOSE m \in {v[i] : i \in 1 .. Len(v)} : \A i \in 1 .. Len(v) : m <= v[i]
ivector_maximum(v) == CHOOSE m \in {v[i] : i \in 1 .. Len(v)} : \A i \in 1 .. Len(v) : m >= v[i]

\* the state of one call: the output array, the log of its writes (which
\* output index, from which direction's coordinates, read from which file,
\* with the pixel and offsets used), the header reads, qRead, pFileIn and
\* the header buffers released.  A header buffer is named by the number of
\* the read that allocated it; 0 is the null pointer and -1 a pointer to no
\* buffer.
GvStart(nGal, garbage) ==
  [out |-> [i \in 1 .. nGal |-> garbage], writes |-> << >>, hdrReads |-> << >>,
   qRead |-> 0, pFileIn |-> NULL, freed |-> << >>]

\* one point of the per-point loop, iGal of the code being iGal - 1
PointSample(in, iGal, pFileIn, garbage) ==
  LET dir == in.dirs[iGal]
      f == in.files[pFileIn]
      hdr == in.hdrs[pFileIn]
  IN IF in.qInterp = 0
     THEN LET pix == lambert_lb2pix(dir, hdr)
              r == fits_read_point_(f, hdr, pix, garbage)
          IN [val |-> r.value, pix |-> pix, d |-> <<0, 0>>, w |-> <<0, 0, 0, 0>>,
              unread |-> r.retval # 0]
     ELSE LET fp == lambert_lb2fpix(dir, hdr)
              cx == InterpCorner(fp[1], hdr.naxis[1])
              cy == InterpCorner(fp[2], hdr.naxis[2])
              w == Weights(cx.d, cy.d)
          IN TheOne({ [val |-> w[1] * BufAt(sub.vals, 1, garbage)
                               + w[2] * BufAt(sub.vals, 2, garbage)
                               + w[3] * BufAt(sub.vals, 3, garbage)
                               + w[4] * BufAt(sub.vals, 4, garbage),
                       pix |-> <<cx.pix, cy.pix>>, d |-> <<cx.d, cy.d>>, w |-> w,
                       unread |-> Len(sub.vals) < 4]
                      : sub \in { fits_read_subimg_(f, hdr, <<cx.pix, cy.pix>>,
                                                     <<cx.pix + 1, cy.pix + 1>>) } })

\* the loop over iGal of the per-point branch for one hemisphere
RECURSIVE LoopGal(_, _, _, _, _)
LoopGal(iloop, iGal, in, st, garbage) ==
  IF iGal > Len(in.dirs) THEN st
  ELSE IF PNS(in.dirs[iGal].b) # iloop THEN LoopGal(iloop, iGal + 1, in, st, garbage)
  ELSE LET header(s0) == IF s0.qRead = 0
                         THEN [s0 EXCEPT !.qRead = 1, !.pFileIn = FileOf(iloop),
                                         !.hdrReads = Append(@, FileOf(iloop))]
                         ELSE s0
           store(s1, r) ==
             [s1 EXCEPT !.out[iGal] = r.val,
                        !.writes = Append(@, [idx |-> iGal, src |-> iGal,
                                              file |-> s1.pFileIn, val |-> r.val,
                                              pix |-> r.pix, d |-> r.d, w |-> r.w,
                                              unread |-> r.unread])]
       IN TheOne({ LoopGal(iloop, iGal + 1, in, s2, garbage) :
                   s2 \in UNION { { store(s1, r) :
                                      r \in { PointSample(in, iGal, s1.pFileIn, garbage) } } :
                                    s1 \in { header(s0) : s0 \in {st} } } })

\* lambert_getval with qNoloop = 0
GetvalPerPoint(in, garbage) ==
  LET s0 == GvStart(Len(in.dirs), garbage)
      sN == LoopGal(0, 1, in, [s0 EXCEPT !.qRead = 0], garbage)
  IN LoopGal(1, 1, in, [sN EXCEPT !.qRead = 0], garbage)

\* pIndx: the indices of the directions of hemisphere iloop, in input order
RECURSIVE PIndx(_, _, _)
PIndx(dirs, iloop, iGal) ==
  IF iGal > Len(dirs) THEN << >>
  ELSE IF PNS(dirs[iGal].b) = iloop THEN <<iGal>> \o PIndx(dirs, iloop, iGal + 1)
  ELSE PIndx(dirs, iloop, iGal + 1)

\* the output written at the position in the hemisphere's list
OutIndex_m(pIndx, ii) == ii

\* the output index written for entry ii of the hemisphere: pIndx[ii]
OutIndex(pIndx, ii) == pIndx[ii]

\* the pixel arrays of the bulk branch for one hemisphere and the bounding
\* box pStart, pEnd that is read
BulkPix(iloop, in, pIndx) ==
  LET nIndx == Len(pIndx)
      hdr == in.hdrs[FileOf(iloop)]
      more == IF in.qInterp = 0 THEN 0 ELSE 1
      box(c) ==
        [cx |-> [ii \in 1 .. nIndx |-> c[ii][1]],
         cy |-> [ii \in 1 .. nIndx |-> c[ii][2]],
         pXPix |-> [ii \in 1 .. nIndx |-> c[ii][3][1]],
         pYPix |-> [ii \in 1 .. nIndx |-> c[ii][3][2]],
         pStart |-> <<ivector_minimum([ii \in 1 .. nIndx |-> c[ii][3][1]]),
                      ivector_minimum([ii \in 1 .. nIndx |-> c[ii][3][2]])>>,
         pEnd |-> <<ivector_maximum([ii \in 1 .. nIndx |-> c[ii][3][1]]) + more,
                    ivector_maximum([ii \in 1 .. nIndx |-> c[ii][3][2]]) + more>>]
      one(cx, cy, near) ==
        <<cx, cy, IF in.qInterp = 0 THEN near ELSE <<cx.pix, cy.pix>>>>
  IN TheOne({ box(c) :
              c \in { [ii \in 1 .. nIndx |->
                        TheOne({ one(InterpCornerBulk(fp[1], hdr.naxis[1]),
                                     InterpCornerBulk(fp[2], hdr.naxis[2]),
                                     lambert_lb2pix(in.dirs[pIndx[ii]], hdr)) :
                                 fp \in { lambert_lb2fpix(in.dirs[pIndx[ii]], hdr) } })] } })

\* the outputs of the bulk branch for one hemisphere, px being its pixel
\* arrays and sub the bounding box as read
BulkStore(iloop, in, pIndx, st, garbage, px, sub) ==
  LET nIndx == Len(pIndx)
      pFileIn == FileOf(iloop)
      xsize == px.pEnd[1] - px.pStart[1] + 1
      j(ii, ox, oy) == 1 + (px.pXPix[ii] - px.pStart[1] + ox)
                         + (px.pYPix[ii] - px.pStart[2] + oy) * xsize
      at(ii, ox, oy) == BufAt(sub.vals, j(ii, ox, oy), garbage)
      w(ii) == Weights(px.cx[ii].d, px.cy[ii].d)
      val(ii) == IF in.qInterp = 0 THEN at(ii, 0, 0)
                 ELSE w(ii)[1] * at(ii, 0, 0) + w(ii)[2] * at(ii, 1, 0)
                      + w(ii)[3] * at(ii, 0, 1) + w(ii)[4] * at(ii, 1, 1)
      entry(ii) == [idx |-> OutIndex(pIndx, ii), src |-> pIndx[ii], file |-> pFileIn,
                    val |-> val(ii),
                    pix |-> <<px.pXPix[ii], px.pYPix[ii]>>,
                    d |-> IF in.qInterp = 0 THEN <<0, 0>>
                          ELSE <<px.cx[ii].d, px.cy[ii].d>>,
                    w |-> IF in.qInterp = 0 THEN <<0, 0, 0, 0>> ELSE w(ii),
                    unread |-> j(ii, in.qInterp, in.qInterp) > Len(sub.vals)]
      RECURSIVE Put(_, _)
      Put(ii, s) ==
        IF ii > nIndx THEN s
        ELSE Put(ii + 1, [s EXCEPT !.out[OutIndex(pIndx, ii)] = val(ii),
                                   !.writes = Append(@, entry(ii))])
  IN Put(1, [st EXCEPT !.pFileIn = pFileIn, !.hdrReads = Append(@, pFileIn)])

\* the bulk branch for one hemisphere with nIndx > 0
BulkHemi(iloop, in, pIndx, st, garbage) ==
  LET f == in.files[FileOf(iloop)]
      hdr == in.hdrs[FileOf(iloop)]
  IN TheOne(UNION { { BulkStore(iloop, in, pIndx, s0, garbage, px, sub) :
                      sub \in { fits_read_subimg_(f, hdr, px.pStart, px.pEnd) },
                      s0 \in {st} } :
                    px \in { BulkPix(iloop, in, pIndx) } })

\* lambert_getval with qNoloop # 0
GetvalBulk(in, garbage) ==
  LET s0 == GvStart(Len(in.dirs), garbage)
      iN == PIndx(in.dirs, 0, 1)
      iS == PIndx(in.dirs, 1, 1)
  IN TheOne({ IF Len(iS) > 0 THEN BulkHemi(1, in, iS, sN, garbage) ELSE sN :
              sN \in { IF Len(iN) > 0 THEN BulkHemi(0, in, iN, s0, garbage) ELSE s0 } })

\* fits_dispose_array_: the buffers it frees
fits_dispose_array_(pHead) == IF pHead # 0 THEN <<pHead>> ELSE << >>

\* lambert_getval.  pHead is not initialised; each header read leaves the
\* buffer it allocated in pHead, and pHead is disposed of once at the end.
lambert_getval(in, qNoloop, garbage) ==
  LET r == IF qNoloop = 0 THEN GetvalPerPoint(in, garbage) ELSE GetvalBulk(in, garbage)
      pHead == IF Len(r.hdrReads) > 0 THEN Len(r.hdrReads)
               ELSE IF garbage = 0 THEN 0 ELSE 0 - 1
  IN [r EXCEPT !.freed = fits_dispose_array_(pHead)]

IdleIO == [op |-> "none", retval |-> IO_GOOD, filenum |-> 0, full |-> FALSE,
           lastRead |-> 0, path |-> NULL, priv |-> NULL, exists |-> FALSE,
           before |-> << >>]
IdleRd == [pc |-> "idle"]
IdleGv == [pc |-> "idle"]
IdleHd == [pc |-> "idle"]

InitIO ==
  /\ pFILEfits = [i \in Slots |-> NULL]
  /\ memAfter \in [{IO_FOPEN_MAX, IO_FOPEN_MAX + 1} -> {NULL, JUNK}]
  /\ disk \in SUBSET Paths
  /\ io = IdleIO
  /\ rd = IdleRd
  /\ gv = IdleGv
  /\ hd = IdleHd

OpenFile ==
  \E path \in Paths, priv \in {"r", "w"}, fopenOk \in BOOLEAN :
    LET r == inoutput_open_file(pFILEfits, memAfter, disk, path, priv, fopenOk)
    IN /\ pFILEfits' = r.tab
       /\ memAfter' = r.mem
       /\ disk' = r.dsk
       /\ io' = [op |-> "open", retval |-> r.retval, filenum |-> r.filenum,
                 full |-> \A i \in Slots : pFILEfits[i] # NULL,
                 lastRead |-> ScanLastRead(pFILEfits, memAfter),
                 path |-> path, priv |-> priv,
                 exists |-> path \in disk,
                 before |-> pFILEfits]
       /\ UNCHANGED <<rd, gv, hd>>

\* a caller closes a file number it was handed and has not closed yet
CloseFile ==
  \E n \in 0 .. (IO_FOPEN_MAX + 1) :
    /\ Cell(pFILEfits, memAfter, n) \in Paths
    /\ LET r == inoutput_close_file(pFILEfits, memAfter, n)
       IN /\ pFILEfits' = r.tab
          /\ memAfter' = r.mem
    /\ io' = [op |-> "close", retval |-> IO_GOOD, filenum |-> n,
              full |-> FALSE, lastRead |-> 0, path |-> NULL, priv |-> NULL,
              exists |-> FALSE, before |-> pFILEfits]
    /\ UNCHANGED <<disk, rd, gv, hd>>

NextIO == OpenFile \/ CloseFile

SpecIO == InitIO /\ [][NextIO]_vars

\* C10: after any sequence of opens and closes at most IO_FOPEN_MAX handles
\* are open, every file number handed out lies in 0..IO_FOPEN_MAX-1, the
\* scan for a free entry returns nothing above IO_FOPEN_MAX, and an open
\* attempted while every entry is in use returns IO_BAD.
C10_Claim ==
  /\ OpenCount(pFILEfits, memAfter) <= IO_FOPEN_MAX
  /\ io.op = "open" =>
       /\ io.filenum <= IO_FOPEN_MAX
       /\ io.lastRead <= IO_FOPEN_MAX
       /\ io.retval = IO_GOOD => io.filenum \in Slots
       /\ io.full => io.retval = IO_BAD

\* C11: a successful open returns the lowest-numbered entry of the table
\* that was unused when it was called, and the entry a close releases is
\* unused afterwards.
C11_Claim ==
  /\ (io.op = "open" /\ io.retval = IO_GOOD) =>
       /\ io.filenum \in Slots
       /\ io.before[io.filenum] = NULL
       /\ \A j \in 0 .. (io.filenum - 1) : io.before[j] # NULL
  /\ io.op = "close" => Cell(pFILEfits, memAfter, io.filenum) = NULL

Readers == {"header_only", "point", "subimg"}
NullOutcomes == {"crash", "hang", "continue"}

\* the library calls a reader makes on pFILEfits[fileNum], in order
ReaderOps(kind) ==
  CASE kind = "header_only" -> <<"fgetc", "ftell", "fclose">>
    [] kind = "point" -> <<"fgetc", "ftell", "ftell", "fseek", "fread", "fclose">>
    [] kind = "subimg" -> <<"fgetc", "ftell", "fseek", "fread", "fseek", "fclose">>

\* fits_read_file_fits_header_only_, fits_read_point_ and fits_read_subimg_
\* as users of the file table
ReaderCall(kind, tab, mem, dsk, path, fopenOk, ub) ==
  LET o == inoutput_open_file(tab, mem, dsk, path, "r", fopenOk)
      h == Cell(o.tab, o.mem, o.filenum)
      ops == ReaderOps(kind)
      all == [k \in 1 .. Len(ops) |-> [op |-> ops[k], filenum |-> o.filenum, handle |-> h]]
      c == inoutput_close_file(o.tab, o.mem, o.filenum)
      nOpen == OpenCount(o.tab, o.mem)
  IN IF h \in Paths
     THEN [retval |-> o.retval, acc |-> all, outcome |-> "returned",
           tab |-> c.tab, mem |-> c.mem, nOpen |-> nOpen]
     ELSE IF ub = "continue"
          THEN [retval |-> o.retval, acc |-> all, outcome |-> ub,
                tab |-> c.tab, mem |-> c.mem, nOpen |-> nOpen]
          ELSE [retval |-> o.retval, acc |-> <<all[1]>>, outcome |-> ub,
                tab |-> o.tab, mem |-> o.mem, nOpen |-> nOpen]

CallReader ==
  \E kind \in Readers, path \in Paths, fopenOk \in BOOLEAN, ub \in NullOutcomes :
    LET r == ReaderCall(kind, pFILEfits, memAfter, disk, path, fopenOk, ub)
    IN /\ pFILEfits' = r.tab
       /\ memAfter' = r.mem
       /\ rd' = [pc |-> "called", kind |-> kind, path |-> path, retval |-> r.retval,
                 acc |-> r.acc, outcome |-> r.outcome, before |-> pFILEfits,
                 nBefore |-> OpenCount(pFILEfits, memAfter), nOpen |-> r.nOpen]
       /\ UNCHANGED <<disk, io, gv, hd>>

\* the process goes on unless it was killed or is stuck in a reader
Running == IF rd.pc = "idle" THEN TRUE ELSE rd.outcome \in {"returned", "continue"}

\* the table as other callers' opens and closes may have left it
InitCall ==
  /\ disk \in SUBSET Paths
  /\ pFILEfits \in [Slots -> IF "fileS" \in disk THEN {NULL, "fileS"} ELSE {NULL}]
  /\ memAfter \in [{IO_FOPEN_MAX, IO_FOPEN_MAX + 1} -> {NULL, JUNK}]
  /\ io = IdleIO
  /\ rd = IdleRd
  /\ gv = IdleGv
  /\ hd = IdleHd

NextCall == Running /\ CallReader

SpecCall == InitCall /\ [][NextCall]_vars

\* C13: a reader whose inoutput_open_file failed makes no library call on
\* an entry of the table that holds no open file.
C13_Claim ==
  (rd.pc = "called" /\ rd.retval = IO_BAD) =>
    \A k \in 1 .. Len(rd.acc) : rd.acc[k].handle \in Paths

\* C27: a reader that returns after a successful open had one handle more
\* in use than before while it ran, so one at most when none was in use,
\* and leaves the file handle table as it found it.
C27_Paired ==
  (rd.pc = "called" /\ rd.retval = IO_GOOD /\ rd.outcome = "returned") =>
    /\ pFILEfits = rd.before
    /\ rd.nOpen = rd.nBefore + 1
    /\ OpenCount(pFILEfits, memAfter) = rd.nBefore

\* fits_read_subimg_ returned after a successful open into slot 1, slot 0
\* being in use
C27_Witness ==
  /\ rd.pc = "called" /\ rd.retval = IO_GOOD /\ rd.outcome = "returned"
  /\ rd.kind = "subimg"
  /\ rd.before[0] = "fileS" /\ rd.before[1] = NULL
  /\ rd.acc[1].filenum = 1
  /\ rd.nOpen = 2

(***************************************************************************)
(* SpecRd: fits_read_subimg_ and fits_read_point_ applied to one file.     *)
(*   rd.f, rd.hdr           the file and the header passed in              *)
(*   rd.pStart, rd.pEnd     the window                                     *)
(*   rd.sub                 what fits_read_subimg_ returned for the window *)
(*   rd.pLoc, rd.pt         a coordinate (the first corner of the window)  *)
(*                          and what fits_read_point_ returned for it      *)
(*   rd.one                 fits_read_subimg_ with pStart = pEnd = pLoc    *)
(***************************************************************************)
GarbageVals == {0, 7}
RdBase == 10
\* the headers tried: <<BITPIX, BSCALE, BZERO>>
RdCards == {<<0 - 32, ABSENT, ABSENT>>, <<16, ABSENT, ABSENT>>, <<16, <<2>>, <<3>> >>}

\* the extents tried: any extent on the first two axes, 1 or 2 on the others
AxesSet ==
  UNION {{a \in [1 .. n -> 1 .. MaxNaxis] : \A k \in 3 .. n : a[k] <= 2} :
           n \in 1 .. MaxRank}

\* the coordinate vectors inside the image
InRange(pNaxis) ==
  {c \in [1 .. Len(pNaxis) -> 0 .. (MaxNaxis - 1)] :
     \A k \in 1 .. Len(pNaxis) : c[k] <= pNaxis[k] - 1}

\* the coordinate vectors of the window
Window(pStart, pEnd) ==
  {c \in [1 .. Len(pStart) -> 0 .. (MaxNaxis - 1)] :
     \A k \in 1 .. Len(pStart) : pStart[k] <= c[k] /\ c[k] <= pEnd[k]}

NoSub == [retval |-> 0, nVal |-> 0, nExpect |-> 0, vals |-> << >>, pos |-> 0]
NoPt == [retval |-> 0, value |-> 0, pos |-> 0]

\* every call of the readers opens the file, reads, and closes it again
OpenReadClose(path) ==
  LET o == inoutput_open_file(pFILEfits, memAfter, disk, path, "r", TRUE)
      c == inoutput_close_file(o.tab, o.mem, o.filenum)
  IN /\ o.retval = IO_GOOD
     /\ pFILEfits' = c.tab
     /\ memAfter' = c.mem
     /\ disk' = o.dsk

InitRd ==
  /\ pFILEfits = [i \in Slots |-> NULL]
  /\ memAfter = [i \in {IO_FOPEN_MAX, IO_FOPEN_MAX + 1} |-> NULL]
  /\ disk = Paths
  /\ io = IdleIO
  /\ gv = IdleGv
  /\ hd = IdleHd
  /\ \E pNaxis \in AxesSet, cards \in RdCards :
       \E pStart \in InRange(pNaxis), len \in 0 .. Prod(pNaxis, Len(pNaxis)) :
         \E pEnd \in {e \in InRange(pNaxis) : \A k \in 1 .. Len(pNaxis) : pStart[k] <= e[k]} :
           rd = [pc |-> "start",
                 f |-> [len |-> len, base |-> RdBase],
                 hdr |-> [naxis |-> pNaxis, bitpix |-> cards[1],
                          bscale |-> cards[2], bzero |-> cards[3], ctype |-> TRUE],
                 pStart |-> pStart, pEnd |-> pEnd,
                 sub |-> NoSub, pLoc |-> pStart, pt |-> NoPt, one |-> NoSub]

ReadSubimg ==
  /\ rd.pc = "start"
  /\ OpenReadClose("fileN")
  /\ rd' = [rd EXCEPT !.pc = "sub",
                      !.sub = fits_read_subimg_(rd.f, rd.hdr, rd.pStart, rd.pEnd)]
  /\ UNCHANGED <<io, gv, hd>>

ReadPoint ==
  /\ rd.pc = "sub"
  /\ OpenReadClose("fileN")
  /\ \E garbage \in GarbageVals :
       rd' = [rd EXCEPT !.pc = "done",
                        !.pt = fits_read_point_(rd.f, rd.hdr, rd.pLoc, garbage),
                        !.one = fits_read_subimg_(rd.f, rd.hdr, rd.pLoc, rd.pLoc)]
  /\ UNCHANGED <<io, gv, hd>>

NextRd == ReadSubimg \/ ReadPoint

SpecRd == InitRd /\ [][NextRd]_vars

\* the elements of the data block the header describes
RdTotal == Prod(rd.hdr.naxis, Len(rd.hdr.naxis))
RdSize == fits_size_from_bitpix_(rd.hdr.bitpix)
\* row-major index of a coordinate vector, written out as a sum
RowMajor(c, pNaxis) ==
  IF Len(pNaxis) = 1 THEN c[1]
  ELSE IF Len(pNaxis) = 2 THEN c[1] + c[2] * pNaxis[1]
  ELSE c[1] + c[2] * pNaxis[1] + c[3] * pNaxis[1] * pNaxis[2]
\* the physical value of data element k of the file
RdPhys(k) ==
  IF rd.hdr.bitpix = 0 - 32 THEN RdBase + k
  ELSE (RdBase + k) * CardOr(rd.hdr.bscale, 1) + CardOr(rd.hdr.bzero, 0)
\* the elements of the window that the file holds
RdPresent == {c \in Window(rd.pStart, rd.pEnd) : RowMajor(c, rd.hdr.naxis) < rd.f.len}

\* C7: fits_read_subimg_ returns the number of elements of the window minus
\* the number of elements read, which are the elements of the window the
\* file holds: 0 when the file holds the whole window, positive when the
\* file ends before the last element of the window.
C7_Deficit ==
  rd.pc # "start" =>
    /\ rd.sub.retval = Cardinality(Window(rd.pStart, rd.pEnd)) - rd.sub.nVal
    /\ rd.sub.nVal = Cardinality(RdPresent)
    /\ (RowMajor(rd.pEnd, rd.hdr.naxis) < rd.f.len) => rd.sub.retval = 0
    /\ (RowMajor(rd.pEnd, rd.hdr.naxis) >= rd.f.len) => rd.sub.retval > 0

C7_Witness ==
  /\ rd.pc = "sub"
  /\ Len(rd.hdr.naxis) = 2
  /\ rd.sub.retval > 0
  /\ rd.sub.nVal > 0
  /\ rd.pStart[1] > 0

\* C8: on a complete file fits_read_subimg1 transfers exactly the elements
\* of the window, each once, first axis fastest, and leaves the file
\* position advanced by the size of the whole data array.
C8_Window ==
  (rd.pc # "start" /\ rd.f.len = RdTotal) =>
    /\ rd.sub.nVal = Cardinality(Window(rd.pStart, rd.pEnd))
    /\ \A c \in Window(rd.pStart, rd.pEnd) :
         rd.sub.vals[1 + RowMajor([k \in 1 .. Len(c) |-> c[k] - rd.pStart[k]],
                                  [k \in 1 .. Len(c) |-> rd.pEnd[k] - rd.pStart[k] + 1])]
           = RdPhys(RowMajor(c, rd.hdr.naxis))
    /\ rd.sub.pos = BlockBytes + RdSize * RdTotal

C8_Witness ==
  /\ rd.pc = "sub"
  /\ rd.f.len = RdTotal
  /\ Len(rd.hdr.naxis) = 2
  /\ rd.pStart[1] > 0 /\ rd.pEnd[1] < rd.hdr.naxis[1] - 1
  /\ rd.pEnd[2] > rd.pStart[2] /\ rd.pEnd[2] < rd.hdr.naxis[2] - 1

\* C9: for an in-range coordinate vector whose element the file holds,
\* fits_read_point_ reads the element at the row-major index of the
\* coordinates, and its value is the single element fits_read_subimg_
\* returns with pStart = pEnd = the coordinates.
C9_Point ==
  (rd.pc = "done" /\ RowMajor(rd.pLoc, rd.hdr.naxis) < rd.f.len) =>
    /\ rd.pt.retval = 0
    /\ rd.pt.value = RdPhys(RowMajor(rd.pLoc, rd.hdr.naxis))
    /\ rd.one.nVal = 1
    /\ rd.pt.value = rd.one.vals[1]

C9_Witness ==
  /\ rd.pc = "done"
  /\ Len(rd.hdr.naxis) = 2
  /\ rd.pLoc[1] > 0 /\ rd.pLoc[2] > 0
  /\ rd.hdr.naxis[1] # rd.hdr.naxis[2]
  /\ RowMajor(rd.pLoc, rd.hdr.naxis) < rd.f.len
  /\ rd.hdr.bitpix = 16

(***************************************************************************)
(* SpecGv: lambert_getval called on the same input with qNoloop = 0 and    *)
(* then with qNoloop = 1.  The input is a batch of up to MaxGal directions *)
(* at a few positions, or one direction at any position.                   *)
(*   gv.in     dirs, qInterp, the two files and their headers              *)
(*   gv.loop   the call with qNoloop = 0                                   *)
(*   gv.bulk   the call with qNoloop = 1                                   *)
(* fileN has NAXIS1 x NAXIS2 = n1 x n2 and fileS has n2 x n1, so that the  *)
(* two headers differ.  Both files are complete under SpecGv; under        *)
(* SpecCut both lack their last element.                                   *)
(***************************************************************************)
BaseN == 100
BaseS == 200
\* a position far below 0, as a header with a distant reference pixel gives
Far == (0 - 1000) * Den

MapHdr(naxis, ctype) ==
  [naxis |-> naxis, bitpix |-> 0 - 32, bscale |-> ABSENT, bzero |-> ABSENT,
   ctype |-> ctype]

GvInput(dirs, qInterp, n1, n2, ctN, ctS) ==
  [dirs |-> dirs, qInterp |-> qInterp,
   files |-> [fileN |-> [len |-> n1 * n2, base |-> BaseN],
              fileS |-> [len |-> n1 * n2, base |-> BaseS]],
   hdrs |-> [fileN |-> MapHdr(<<n1, n2>>, ctN), fileS |-> MapHdr(<<n2, n1>>, ctS)]]

NoRes == GvStart(0, 0)

\* the directions of the batches: both hemispheres and the equator, at a
\* half-pixel position, at an integer position and far off the image
GvPos == {<<1, 0>>, <<2 * Den, Den>>, <<Far, Den>>}
GvDirs == {[b |-> b, xr |-> p[1], yr |-> p[2]] : b \in {0 - 1, 0, 1}, p \in GvPos}

\* the positions of the single direction: every multiple of 1/Den from
\* below -1 to beyond the largest image, and the far one
PxPos == ((0 - Den - 1) .. ((MaxNaxis + 1) * Den)) \cup {Far}
PxDirs == {[b |-> b, xr |-> x, yr |-> y] : b \in {0 - 1, 1}, x \in PxPos, y \in PxPos}

InitFiles ==
  /\ pFILEfits = [i \in Slots |-> NULL]
  /\ memAfter = [i \in {IO_FOPEN_MAX, IO_FOPEN_MAX + 1} |-> NULL]
  /\ disk = Paths
  /\ io = IdleIO
  /\ rd = IdleRd
  /\ hd = IdleHd

InitBatch ==
  /\ InitFiles
  /\ \E n \in 0 .. MaxGal, qInterp \in {0, 1}, n1 \in 1 .. MaxNaxis, n2 \in 1 .. MaxNaxis,
        ct \in BOOLEAN :
       \E dirs \in [1 .. n -> GvDirs] :
         gv = [pc |-> "start", in |-> GvInput(dirs, qInterp, n1, n2, ct, TRUE),
               loop |-> NoRes, bulk |-> NoRes]

InitPx ==
  /\ InitFiles
  /\ \E d \in PxDirs, qInterp \in {0, 1}, n1 \in 1 .. MaxNaxis, n2 \in 1 .. MaxNaxis,
        ct \in BOOLEAN :
       gv = [pc |-> "start", in |-> GvInput(<<d>>, qInterp, n1, n2, ct, ct),
             loop |-> NoRes, bulk |-> NoRes]

GetvalLoop ==
  /\ gv.pc = "start"
  /\ OpenReadClose("fileN")
  /\ \E garbage \in GarbageVals :
       gv' = [gv EXCEPT !.pc = "loop", !.loop = lambert_getval(gv.in, 0, garbage)]
  /\ UNCHANGED <<io, rd, hd>>

GetvalNoloop ==
  /\ gv.pc = "loop"
  /\ OpenReadClose("fileS")
  /\ \E garbage \in GarbageVals :
       gv' = [gv EXCEPT !.pc = "done", !.bulk = lambert_getval(gv.in, 1, garbage)]
  /\ UNCHANGED <<io, rd, hd>>

NextGv == GetvalLoop \/ GetvalNoloop

InitGv == InitBatch \/ InitPx

SpecGv == InitGv /\ [][NextGv]_vars

\* one direction on files that lack their last data element
InitCut ==
  /\ InitFiles
  /\ \E d \in PxDirs, qInterp \in {0, 1}, n1 \in 1 .. MaxNaxis, n2 \in 1 .. MaxNaxis :
       gv = [pc |-> "start",
             in |-> [GvInput(<<d>>, qInterp, n1, n2, TRUE, TRUE)
                       EXCEPT !.files.fileN.len = @ - 1, !.files.fileS.len = @ - 1],
             loop |-> NoRes, bulk |-> NoRes]

SpecCut == InitCut /\ [][NextGv]_vars

nGal == Len(gv.in.dirs)
\* the calls made so far
GvRuns == IF gv.pc = "start" THEN {} ELSE IF gv.pc = "loop" THEN {gv.loop}
          ELSE {gv.loop, gv.bulk}
\* the file and header of the hemisphere of direction i
HemiFile(i) == IF gv.in.dirs[i].b >= 0 THEN "fileN" ELSE "fileS"
HemiHdr(i) == gv.in.hdrs[HemiFile(i)]
\* the stored value of pixel (x, y) of the map of direction i
Stored(i, x, y) == gv.in.files[HemiFile(i)].base + x + y * HemiHdr(i).naxis[1]
WritesOf(r, i) == {k \in 1 .. Len(r.writes) : r.writes[k].idx = i}

\* C1: for every batch, interp setting and pair of complete files the calls
\* with qNoloop = 0 and with qNoloop = 1 write the same value to output[i].
C1_Claim ==
  gv.pc = "done" => \A i \in 1 .. nGal : gv.loop.out[i] = gv.bulk.out[i]

\* C2: in both modes every output[i] is written exactly once, with the
\* sample computed from the coordinates of direction i.
C2_Order ==
  \A r \in GvRuns :
    /\ Len(r.writes) = nGal
    /\ \A i \in 1 .. nGal :
         /\ Cardinality(WritesOf(r, i)) = 1
         /\ \A k \in WritesOf(r, i) : r.writes[k].src = i /\ r.out[i] = r.writes[k].val

C2_Witness ==
  /\ gv.pc = "done"
  /\ nGal = 2
  /\ gv.in.dirs[1].b < 0
  /\ gv.in.dirs[2].b > 0
  /\ gv.in.dirs[1].xr # gv.in.dirs[2].xr

\* no pixel looked up in the file during the call has a negative coordinate
InImage(r, file) ==
  \A k \in 1 .. Len(r.writes) :
    r.writes[k].file = file => r.writes[k].pix[1] >= 0 /\ r.writes[k].pix[2] >= 0

\* C3: every direction with b >= 0, the equator included, is sampled from
\* the north file and every direction with b < 0 from the south file, and
\* none from both or from neither; when the nearest pixels of the
\* hemisphere are inside the image the output is the value that file
\* stores at the pixel.
C3_Hemisphere ==
  \A r \in GvRuns :
    \A i \in 1 .. nGal :
      /\ Cardinality(WritesOf(r, i)) = 1
      /\ \A k \in WritesOf(r, i) :
           LET e == r.writes[k]
           IN /\ e.file = (IF gv.in.dirs[i].b >= 0 THEN "fileN" ELSE "fileS")
              /\ (gv.in.qInterp = 0 /\ InImage(r, e.file))
                   => r.out[i] = Stored(i, e.pix[1], e.pix[2])

C3_Witness ==
  /\ gv.pc = "done"
  /\ nGal = 2
  /\ gv.in.dirs[1].b = 0
  /\ gv.in.dirs[2].b < 0
  /\ gv.in.qInterp = 0
  /\ gv.in.dirs[1].xr >= 0
  /\ gv.in.hdrs["fileN"].ctype

\* C4: lambert_lb2pix returns pixel coordinates inside the image for every
\* fractional position, those below 0 and the unsupported value included.
C4_Claim ==
  \A r \in GvRuns :
    \A k \in 1 .. Len(r.writes) :
      gv.in.qInterp = 0 =>
        LET e == r.writes[k]
            naxis == gv.in.hdrs[e.file].naxis
        IN /\ 0 <= e.pix[1] /\ e.pix[1] <= naxis[1] - 1
           /\ 0 <= e.pix[2] /\ e.pix[2] <= naxis[2] - 1

\* the corner of every interpolating write is such that the 2x2
\* neighbourhood lies inside the image
CornersInside(r) ==
  \A k \in 1 .. Len(r.writes) :
    LET e == r.writes[k]
        naxis == gv.in.hdrs[e.file].naxis
    IN /\ 0 <= e.pix[1] /\ e.pix[1] <= naxis[1] - 2
       /\ 0 <= e.pix[2] /\ e.pix[2] <= naxis[2] - 2

AtPixel(i) ==
  /\ HemiHdr(i).ctype
  /\ gv.in.dirs[i].xr % Den = 0 /\ gv.in.dirs[i].yr % Den = 0
  /\ 0 <= gv.in.dirs[i].xr /\ gv.in.dirs[i].xr \div Den <= HemiHdr(i).naxis[1] - 1
  /\ 0 <= gv.in.dirs[i].yr /\ gv.in.dirs[i].yr \div Den <= HemiHdr(i).naxis[2] - 1

\* C6: at an integer pixel (x, y) inside the image the interpolate mode
\* returns the stored value of pixel (x, y): one weight is 1, the other
\* three are 0, and the weight 1 is on pixel (x, y).
C6_Degenerate ==
  gv.in.qInterp = 1 =>
    \A r \in GvRuns : \A i \in 1 .. nGal : \A k \in WritesOf(r, i) :
      AtPixel(i) =>
        LET e == r.writes[k]
            x == gv.in.dirs[i].xr \div Den
            y == gv.in.dirs[i].yr \div Den
            j == 1 + (x - e.pix[1]) + 2 * (y - e.pix[2])
        IN /\ j \in 1 .. 4
           /\ x - e.pix[1] \in {0, 1} /\ y - e.pix[2] \in {0, 1}
           /\ e.w[j] = Den * Den
           /\ \A m \in (1 .. 4) \ {j} : e.w[m] = 0
           /\ r.out[i] = Den * Den * Stored(i, x, y)

C6_Witness ==
  /\ gv.pc = "done"
  /\ gv.in.qInterp = 1
  /\ nGal >= 1
  /\ AtPixel(1)
  /\ gv.in.dirs[1].b > 0
  /\ gv.in.hdrs["fileN"].naxis[1] >= 2
  /\ gv.in.dirs[1].xr = (gv.in.hdrs["fileN"].naxis[1] - 1) * Den
  /\ gv.in.dirs[1].yr = 0

\* the values of the pixels of the map of direction i, in the unit of the
\* output of the call (1 in nearest mode, 1/Den^2 in interpolate mode)
MapValues(i) ==
  {(IF gv.in.qInterp = 0 THEN 1 ELSE Den * Den) * Stored(i, x, y) :
     x \in 0 .. (HemiHdr(i).naxis[1] - 1), y \in 0 .. (HemiHdr(i).naxis[2] - 1)}

\* how many times the header of file was read during the call r
HdrReadCount(r, file) == Cardinality({k \in 1 .. Len(r.hdrReads) : r.hdrReads[k] = file})

\* C24: in each call the header of a hemisphere's file is read once when
\* a direction of the batch falls in the hemisphere and never otherwise,
\* and every output comes from the file of its direction's hemisphere.
C24_Once ==
  \A r \in GvRuns :
    /\ \A file \in Paths :
         HdrReadCount(r, file) = IF \E i \in 1 .. nGal : HemiFile(i) = file THEN 1 ELSE 0
    /\ \A k \in 1 .. Len(r.writes) : r.writes[k].file = HemiFile(r.writes[k].src)

\* both calls made on a batch with a direction in each hemisphere, the
\* southern one first
C24_Witness ==
  /\ gv.pc = "done" /\ nGal = 2
  /\ gv.in.dirs[1].b < 0 /\ gv.in.dirs[2].b = 0
  /\ gv.loop.hdrReads = <<"fileN", "fileS">>
  /\ gv.bulk.hdrReads = <<"fileN", "fileS">>

\* C26: in each call every header buffer read is released exactly once
\* and nothing else is released.
C26_Claim ==
  \A r \in GvRuns :
    /\ \A k \in 1 .. Len(r.hdrReads) :
         Cardinality({j \in 1 .. Len(r.freed) : r.freed[j] = k}) = 1
    /\ \A j \in 1 .. Len(r.freed) : r.freed[j] \in 1 .. Len(r.hdrReads)

\* C29: in interpolate mode the four weights of every output sum to 1
\* and each lies in [0, 1] (weights are in units of 1/Den^2).
C29_Claim ==
  gv.in.qInterp = 1 =>
    \A r \in GvRuns : \A k \in 1 .. Len(r.writes) :
      LET w == r.writes[k].w
      IN /\ w[1] + w[2] + w[3] + w[4] = Den * Den
         /\ \A j \in 1 .. 4 : w[j] >= 0 /\ w[j] <= Den * Den

\* C30: no output is computed from an element of a buffer, or from a
\* point value, that the read did not fill.
C30_Claim ==
  \A r \in GvRuns : \A k \in 1 .. Len(r.writes) : ~r.writes[k].unread

\* C14: for a direction whose map has an unsupported CTYPE pair the position
\* is (-99, -99) and no call leaves the value of a pixel of the map in
\* output[i].
C14_Claim ==
  \A r \in GvRuns : \A i \in 1 .. nGal :
    ~HemiHdr(i).ctype =>
      /\ lambert_lb2fpix(gv.in.dirs[i], HemiHdr(i)) = <<Sentinel, Sentinel>>
      /\ r.out[i] \notin MapValues(i)

(***************************************************************************)
(* SpecBp: fits_read_point_ and fits_read_subimg_ of one element of a      *)
(* complete one-axis file, for every BITPIX code and BSCALE/BZERO cards    *)
(* absent or present.  The conversion through long int * of BITPIX 32 is   *)
(* modelled for a build whose long has 32 bits.                            *)
(***************************************************************************)
\* the codes of the two tables and two codes of neither
BitpixCodes == {8, 16, 32, 64, 0 - 8, 0 - 16, 0 - 32, 0 - 64, 0, 24}
BpScales == {ABSENT, <<2>>}
BpZeros == {ABSENT, <<3>>}

InitBp ==
  /\ pFILEfits = [i \in Slots |-> NULL]
  /\ memAfter = [i \in {IO_FOPEN_MAX, IO_FOPEN_MAX + 1} |-> NULL]
  /\ disk = Paths
  /\ io = IdleIO
  /\ gv = IdleGv
  /\ hd = IdleHd
  /\ \E bitpix \in BitpixCodes, bscale \in BpScales, bzero \in BpZeros,
        n \in 1 .. MaxNaxis :
       \E loc \in 0 .. (n - 1) :
         rd = [pc |-> "bp", f |-> [len |-> n, base |-> RdBase],
               hdr |-> [naxis |-> <<n>>, bitpix |-> bitpix, bscale |-> bscale,
                        bzero |-> bzero, ctype |-> TRUE],
               pLoc |-> <<loc>>, pt |-> NoPt, one |-> NoSub]

BpPoint ==
  /\ rd.pc = "bp"
  /\ OpenReadClose("fileN")
  /\ \E garbage \in GarbageVals :
       rd' = [rd EXCEPT !.pc = "bppoint",
                        !.pt = fits_read_point_(rd.f, rd.hdr, rd.pLoc, garbage)]
  /\ UNCHANGED <<io, gv, hd>>

BpSubimg ==
  /\ rd.pc = "bppoint"
  /\ OpenReadClose("fileN")
  /\ rd' = [rd EXCEPT !.pc = "bpdone",
                      !.one = fits_read_subimg_(rd.f, rd.hdr, rd.pLoc, rd.pLoc)]
  /\ UNCHANGED <<io, gv, hd>>

NextBp == BpPoint \/ BpSubimg

SpecBp == InitBp /\ [][NextBp]_vars

\* fits_get_rval_ has a conversion for the code: it returns the stored value
HasRval(bitpix) ==
  fits_get_rval_(1, bitpix, 1, 0) = 1 /\ fits_get_rval_(2, bitpix, 1, 0) = 2

\* C15: a code has a nonzero size exactly when it has a conversion, and a
\* read under a code of size 0 or with no conversion reports an error (a
\* nonzero return value) instead of returning a value.
C15_Claim ==
  rd.pc = "bpdone" =>
    LET bitpix == rd.hdr.bitpix
    IN /\ (fits_size_from_bitpix_(bitpix) # 0) <=> HasRval(bitpix)
       /\ (fits_size_from_bitpix_(bitpix) = 0 \/ ~HasRval(bitpix)) =>
            (rd.pt.retval # 0 /\ rd.one.retval # 0)

\* the raw value the file stores at the coordinate read
BpRaw == RawAt(rd.f, BlockBytes + rd.pLoc[1] * fits_size_from_bitpix_(rd.hdr.bitpix),
               fits_size_from_bitpix_(rd.hdr.bitpix))

\* C16: under the 8-, 16-, 32- and 64-bit integer codes both readers return
\* raw * BSCALE + BZERO, an absent card counting as 1 and 0; under the
\* 32- and 64-bit float codes they return the raw value whatever the cards.
C16_Claim ==
  rd.pc = "bpdone" =>
    LET bitpix == rd.hdr.bitpix
        scaled == BpRaw * CardOr(rd.hdr.bscale, 1) + CardOr(rd.hdr.bzero, 0)
    IN /\ bitpix \in {8, 16, 32, 64} =>
            (rd.pt.value = scaled /\ rd.one.vals = <<scaled>>)
       /\ bitpix \in {0 - 32, 0 - 64} =>
            (rd.pt.value = BpRaw /\ rd.one.vals = <<BpRaw>>)

(***************************************************************************)
(* Header layer.                                                           *)
(*                                                                         *)
(* A header is the sequence of its cards, card number n of the code being  *)
(* element n + 1.  A card of 80 bytes is [label, text]: label is its       *)
(* first 8 bytes and text its bytes from column 11 on, both without their  *)
(* trailing blanks; text is a sequence of characters.  Columns 9 and 10    *)
(* ("= " in a card with a value) are not looked at by any operation.       *)
(***************************************************************************)
CardBytes == 80
BlockCards == 36

Card(label, text) == [label |-> label, text |-> text]
Blanks(n) == [k \in 1 .. n |-> " "]

card_end == Card("END", << >>)
card_empty == Card("", << >>)
card_simple == Card("SIMPLE", Blanks(19) \o <<"T">>)

\* toupper on the characters of a label, for the labels of the model
ToUpper(label) ==
  CASE label = "naxis" -> "NAXIS"
    [] label = "end" -> "END"
    [] OTHER -> label

\* %-8.8s of a label: at most 8 characters of it
Label8(label) == IF label = "LONGLABEL" THEN "LONGLABE" ELSE label

\* a sequence of characters without its trailing blanks
RECURSIVE StripBlanks(_)
StripBlanks(t) ==
  IF Len(t) > 0 /\ t[Len(t)] = " " THEN StripBlanks(SubSeq(t, 1, Len(t) - 1)) ELSE t

\* fits_string_to_card_: the label converted to upper case, the rest of the
\* 80 bytes after the end of the string filled with blanks
fits_string_to_card_(card) == Card(ToUpper(card.label), StripBlanks(card.text))

\* strncmp(pLabel, card, 8) == 0: the bytes are compared as they are
LabelMatch(pLabel, card) == Label8(pLabel) = card.label

\* the search loop of fits_find_card_ and of the getters, from card iCard
RECURSIVE FindFrom(_, _, _)
FindFrom(pLabel, head, iCard) ==
  IF iCard < Len(head) /\ ~LabelMatch(pLabel, head[iCard + 1])
  THEN FindFrom(pLabel, head, iCard + 1)
  ELSE iCard

\* the search that never finds the label
fits_find_card_m(pLabel, head) == Len(head)

fits_find_card_(pLabel, head) == FindFrom(pLabel, head, 0)

\* what a card read from beyond the cards of the header holds
JunkCard == Card("?", <<"?">>)

\* fits_add_card_: [head, ret].  The END card alone is moved up by one
\* card, over the card that followed it if there was one, and the header
\* is then one card longer.
fits_add_card_(pCard, head) ==
  LET c == fits_string_to_card_(pCard)
      nHead == Len(head)
      numCardEnd == fits_find_card_(card_end.label, head)
  IN IF nHead > 0 /\ numCardEnd < nHead
     THEN [head |-> [k \in 1 .. (nHead + 1) |->
                       IF k = numCardEnd + 1 THEN c
                       ELSE IF k = numCardEnd + 2 THEN head[numCardEnd + 1]
                       ELSE IF k = nHead + 1 THEN JunkCard
                       ELSE head[k]],
           ret |-> numCardEnd]
     ELSE [head |-> Append(head, c), ret |-> nHead]

\* fits_delete_card_: [head, ret]
fits_delete_card_(pLabel, head) ==
  LET iCard == fits_find_card_(pLabel, head)
  IN IF iCard < Len(head)
     THEN [head |-> SubSeq(head, 1, iCard) \o SubSeq(head, iCard + 2, Len(head)),
           ret |-> iCard]
     ELSE [head |-> head, ret |-> iCard]

fits_change_card_m(pCard, head) == fits_add_card_(pCard, head)

\* fits_change_card_: [head, ret]
fits_change_card_(pCard, head) ==
  LET c == fits_string_to_card_(pCard)
      iCard == fits_find_card_(c.label, head)
  IN IF iCard < Len(head)
     THEN [head |-> [head EXCEPT ![iCard + 1] = c], ret |-> iCard]
     ELSE fits_add_card_(c, head)

\* fits_create_fits_header_: the END card, then the SIMPLE card
fits_create_fits_header_ ==
  fits_add_card_(card_simple, fits_add_card_(card_end, << >>).head).head

\* the decimal digits of n >= 0
DigitChars == <<"0", "1", "2", "3", "4", "5", "6", "7", "8", "9">>
RECURSIVE Digits(_)
Digits(n) ==
  IF n < 10 THEN <<DigitChars[n + 1]>>
  ELSE Digits(n \div 10) \o <<DigitChars[(n % 10) + 1]>>

\* a sequence of characters right-justified in a field of width w (%wd)
RightJustify(t, w) == Blanks(w - Len(t)) \o t

\* sprintf %20d
FormatInt(ival) ==
  RightJustify(IF ival < 0 THEN <<"-">> \o Digits(0 - ival) ELSE Digits(ival), 20)

\* the value of a run of digits of t from index i on, after acc
RECURSIVE ScanDigits(_, _, _, _)
ScanDigits(t, i, acc, n) ==
  IF i <= Len(t) /\ \E d \in 1 .. 10 : DigitChars[d] = t[i]
  THEN ScanDigits(t, i + 1, 10 * acc + (CHOOSE d \in 1 .. 10 : DigitChars[d] = t[i]) - 1,
                  n + 1)
  ELSE [val |-> acc, n |-> n, next |-> i]

\* the index of the first character of t from i on that is not a blank
RECURSIVE SkipBlanks(_, _)
SkipBlanks(t, i) == IF i <= Len(t) /\ t[i] = " " THEN SkipBlanks(t, i + 1) ELSE i

\* sscanf(pTemp, "%d") on the 20 bytes from column 11 of a card: ok is
\* whether a value was converted
ScanInt(text) ==
  LET t == SubSeq(text, 1, Min(20, Len(text)))
      i == SkipBlanks(t, 1)
      neg == i <= Len(t) /\ t[i] = "-"
      j == IF i <= Len(t) /\ (t[i] = "-" \/ t[i] = "+") THEN i + 1 ELSE i
      d == ScanDigits(t, j, 0, 0)
  IN [ok |-> d.n > 0, val |-> IF neg THEN 0 - d.val ELSE d.val]

\* fits_add_card_ival_: sprintf "%-8.8s= %20d", then fits_add_card_
fits_add_card_ival_(ival, pLabel, head) ==
  fits_add_card_(Card(Label8(pLabel), FormatInt(ival)), head)

fits_change_card_ival_(ival, pLabel, head) ==
  fits_change_card_(Card(Label8(pLabel), FormatInt(ival)), head)

\* the string argument of %-1.68s: at most 68 characters, at least one
StringField(str) ==
  LET t == SubSeq(str, 1, Min(68, Len(str)))
  IN IF Len(t) = 0 THEN <<" ">> ELSE t

\* fits_add_card_string_: sprintf "%-8.8s= '%-1.68s'", then fits_add_card_
fits_add_card_string_(str, pLabel, head) ==
  fits_add_card_(Card(Label8(pLabel), <<"'">> \o StringField(str) \o <<"'">>), head)

\* fits_get_card_ival_: [iret, ival]; garbage is what *pIval held
fits_get_card_ival_(pLabel, head, garbage) ==
  LET iCard == FindFrom(pLabel, head, 0)
  IN IF iCard < Len(head)
     THEN LET sc == ScanInt(head[iCard + 1].text)
          IN [iret |-> TRUE, ival |-> IF sc.ok THEN sc.val ELSE garbage]
     ELSE [iret |-> FALSE, ival |-> garbage]

\* the characters of t from index i up to the next quote or the end
RECURSIVE UntilQuote(_, _)
UntilQuote(t, i) ==
  IF i <= Len(t) /\ t[i] # "'" THEN <<t[i]>> \o UntilQuote(t, i + 1) ELSE << >>

\* fits_get_card_string_: [iret, str]
fits_get_card_string_(pLabel, head) ==
  LET iCard == FindFrom(pLabel, head, 0)
  IN IF iCard < Len(head)
     THEN LET t == head[iCard + 1].text
          IN [iret |-> TRUE,
              str |-> IF Len(t) > 0 /\ t[1] = "'" THEN StripBlanks(UntilQuote(t, 2))
                      ELSE << >>]
     ELSE [iret |-> FALSE, str |-> <<"?">>]

(***************************************************************************)
(* A real number is [m, e], the value m * 10^e with m an integer of at     *)
(* most 9 digits; the binary rounding of float is not modelled.            *)
(***************************************************************************)
Abs(a) == IF a < 0 THEN 0 - a ELSE a

\* m > 0 brought to exactly 8 digits, rounding when it has more: [m, e]
RECURSIVE Norm8(_, _)
Norm8(m, e) ==
  IF m >= 100000000 THEN Norm8((m + 5) \div 10, e + 1)
  ELSE IF m < 10000000 THEN Norm8(10 * m, e - 1)
  ELSE [m |-> m, e |-> e]

\* sprintf %20.7e
FormatReal(rval) ==
  LET n == IF rval.m = 0 THEN [m |-> 0, e |-> 0 - 7] ELSE Norm8(Abs(rval.m), rval.e)
      x == n.e + 7
      mant == IF rval.m = 0 THEN <<"0", "0", "0", "0", "0", "0", "0", "0">> ELSE Digits(n.m)
      expo == IF Abs(x) < 10 THEN <<"0">> \o Digits(Abs(x)) ELSE Digits(Abs(x))
  IN RightJustify((IF rval.m < 0 THEN <<"-">> ELSE << >>)
                  \o <<mant[1], ".">> \o SubSeq(mant, 2, 8)
                  \o <<"e", IF x < 0 THEN "-" ELSE "+">> \o expo, 20)

\* sscanf(pTemp, "%f") on the 20 bytes from column 11 of a card
ScanReal(text) ==
  LET t == SubSeq(text, 1, Min(20, Len(text)))
      i == SkipBlanks(t, 1)
      neg == i <= Len(t) /\ t[i] = "-"
      j == IF i <= Len(t) /\ (t[i] = "-" \/ t[i] = "+") THEN i + 1 ELSE i
      ip == ScanDigits(t, j, 0, 0)
      dot == ip.next <= Len(t) /\ t[ip.next] = "."
      fp == IF dot THEN ScanDigits(t, ip.next + 1, ip.val, 0)
            ELSE [val |-> ip.val, n |-> 0, next |-> ip.next]
      k == fp.next
      hasE == k <= Len(t) /\ (t[k] = "e" \/ t[k] = "E")
      eneg == hasE /\ k + 1 <= Len(t) /\ t[k + 1] = "-"
      k2 == IF hasE /\ k + 1 <= Len(t) /\ (t[k + 1] = "-" \/ t[k + 1] = "+")
            THEN k + 2 ELSE k + 1
      ex == IF hasE THEN ScanDigits(t, k2, 0, 0) ELSE [val |-> 0, n |-> 0, next |-> k]
      x == IF hasE /\ ex.n > 0 THEN (IF eneg THEN 0 - ex.val ELSE ex.val) ELSE 0
  IN [ok |-> ip.n + fp.n > 0,
      val |-> [m |-> IF neg THEN 0 - fp.val ELSE fp.val, e |-> x - fp.n]]

\* fits_add_card_rval_: sprintf "%-8.8s= %20.7e", then fits_add_card_
fits_add_card_rval_(rval, pLabel, head) ==
  fits_add_card_(Card(Label8(pLabel), FormatReal(rval)), head)

\* fits_get_card_rval_: [iret, rval]; garbage is what *pRval held
fits_get_card_rval_(pLabel, head, garbage) ==
  LET iCard == FindFrom(pLabel, head, 0)
  IN IF iCard < Len(head)
     THEN LET sc == ScanReal(head[iCard + 1].text)
          IN [iret |-> TRUE, rval |-> IF sc.ok THEN sc.val ELSE [m |-> garbage, e |-> 0]]
     ELSE [iret |-> FALSE, rval |-> [m |-> garbage, e |-> 0]]

(***************************************************************************)
(* SpecWr: fits_write_file_fits_noscale_ of a header of N cards and a      *)
(* data array of nData elements.                                           *)
(*   hd.head, hd.nData, hd.bitpix   the arguments                          *)
(*   hd.file   the file written: its cards, the bytes of data and of       *)
(*             padding after them, whether the padding bytes are zero,     *)
(*             and how the call ended                                      *)
(***************************************************************************)
\* largest header written: one card more than a block holds
MaxHead == 37
\* the array lengths tried: up to, at and beyond a block for each size
DataLens == {0, 1, 359, 360, 361, 720, 1440, 2880, 2881}

\* the blank cards with one fewer than fills the block
HeadPad_m(jCard) == IF jCard # 0 THEN BlockCards - 1 - jCard ELSE 0

\* the number of blank cards written after jCard cards of the last block
HeadPad(jCard) == IF jCard # 0 THEN BlockCards - jCard ELSE 0

\* fits_write_fits_header_ on a file just opened: the cards of the file
fits_write_fits_header_(head) ==
  LET jCard == ((CardBytes * Len(head)) % BlockBytes) \div CardBytes
  IN head \o [k \in 1 .. HeadPad(jCard) |-> card_empty]

\* the array Datum_zero holds 5 zero bytes
DatumZeroBytes == 5

\* fits_write_fits_data_ at byte pos of the file; a size of 0 divides by
\* zero (ub is then what the build makes of it), and a padding element
\* longer than Datum_zero takes bytes from behind it (junk: those are not
\* zero)
fits_write_fits_data_(pos, bitpix, nData, ub, junk) ==
  LET size == fits_size_from_bitpix_(bitpix)
      end == pos + size * nData
  IN IF size = 0
     THEN [dataBytes |-> 0, padBytes |-> 0, padZero |-> TRUE, outcome |-> ub]
     ELSE LET j == (end % BlockBytes) \div size
              npad == IF j # 0 THEN (BlockBytes \div size) - j ELSE 0
          IN [dataBytes |-> size * nData, padBytes |-> size * npad,
              padZero |-> (npad = 0 \/ size <= DatumZeroBytes \/ ~junk),
              outcome |-> "returned"]

fits_write_file_fits_noscale_(head, nData, bitpix, ub, junk) ==
  LET cards == fits_write_fits_header_(head)
      d == fits_write_fits_data_(CardBytes * Len(cards), bitpix, nData, ub, junk)
  IN [cards |-> cards, dataBytes |-> d.dataBytes, padBytes |-> d.padBytes,
      padZero |-> d.padZero, outcome |-> d.outcome]

\* the writer opens the file for writing and closes it again
OpenWriteClose(path) ==
  LET o == inoutput_open_file(pFILEfits, memAfter, disk, path, "w", TRUE)
      c == inoutput_close_file(o.tab, o.mem, o.filenum)
  IN /\ o.retval = IO_GOOD
     /\ pFILEfits' = c.tab
     /\ memAfter' = c.mem
     /\ disk' = o.dsk

NoFile == [cards |-> << >>, dataBytes |-> 0, padBytes |-> 0, padZero |-> TRUE,
           outcome |-> "none"]

\* a header of n cards ending in END
PlainHead(n) == [k \in 1 .. (n - 1) |-> Card("NAXIS", Blanks(19) \o <<"0">>)] \o <<card_end>>

InitWr ==
  /\ pFILEfits = [i \in Slots |-> NULL]
  /\ memAfter = [i \in {IO_FOPEN_MAX, IO_FOPEN_MAX + 1} |-> NULL]
  /\ disk = {}
  /\ io = IdleIO
  /\ rd = IdleRd
  /\ gv = IdleGv
  /\ \E n \in 1 .. MaxHead, nData \in DataLens, bitpix \in BitpixCodes :
       hd = [pc |-> "wr", head |-> PlainHead(n), nData |-> nData, bitpix |-> bitpix,
             file |-> NoFile]

WriteFile ==
  /\ hd.pc = "wr"
  /\ OpenWriteClose("fileN")
  /\ \E ub \in {"crash", "continue"}, junk \in BOOLEAN :
       hd' = [hd EXCEPT !.pc = "written",
                        !.file = fits_write_file_fits_noscale_(hd.head, hd.nData,
                                                               hd.bitpix, ub, junk)]
  /\ UNCHANGED <<io, rd, gv>>

NextWr == WriteFile

SpecWr == InitWr /\ [][NextWr]_vars

MaxCards == 4
HdLabels == {"NAXIS", "naxis", "LONGLABEL", "END", "end"}
HdInts == {7, 0 - 12}
HdStrs == {<<"a">>, <<"a", "'">>}

HdStep(op, label, card, r) ==
  hd' = [pc |-> "hd", head |-> r.head,
         endLit |-> hd.endLit \/ Label8(label) = "END",
         endUsed |-> hd.endUsed \/ ToUpper(Label8(label)) = "END",
         last |-> [op |-> op, label |-> label, card |-> card, before |-> hd.head,
                   ret |-> r.ret]]

InitHd ==
  /\ pFILEfits = [i \in Slots |-> NULL]
  /\ memAfter = [i \in {IO_FOPEN_MAX, IO_FOPEN_MAX + 1} |-> NULL]
  /\ disk = Paths
  /\ io = IdleIO
  /\ rd = IdleRd
  /\ gv = IdleGv
  /\ hd = [pc |-> "hd", head |-> fits_create_fits_header_, endLit |-> FALSE,
           endUsed |-> FALSE,
           last |-> [op |-> "create", label |-> "", card |-> card_simple,
                     before |-> << >>, ret |-> 0]]

HdAddIval ==
  /\ hd.pc = "hd" /\ Len(hd.head) < MaxCards
  /\ \E label \in HdLabels, ival \in HdInts :
       HdStep("add", label, fits_string_to_card_(Card(Label8(label), FormatInt(ival))),
              fits_add_card_ival_(ival, label, hd.head))
  /\ UNCHANGED <<pFILEfits, memAfter, disk, io, rd, gv>>

HdAddString ==
  /\ hd.pc = "hd" /\ Len(hd.head) < MaxCards
  /\ \E label \in HdLabels, str \in HdStrs :
       HdStep("add", label,
              fits_string_to_card_(Card(Label8(label),
                                        <<"'">> \o StringField(str) \o <<"'">>)),
              fits_add_card_string_(str, label, hd.head))
  /\ UNCHANGED <<pFILEfits, memAfter, disk, io, rd, gv>>

HdChangeIval ==
  /\ hd.pc = "hd"
  /\ \E label \in HdLabels, ival \in HdInts :
       /\ \/ Len(hd.head) < MaxCards
          \/ fits_find_card_(ToUpper(Label8(label)), hd.head) < Len(hd.head)
       /\ HdStep("change", label,
                 fits_string_to_card_(Card(Label8(label), FormatInt(ival))),
                 fits_change_card_ival_(ival, label, hd.head))
  /\ UNCHANGED <<pFILEfits, memAfter, disk, io, rd, gv>>

HdDelete ==
  /\ hd.pc = "hd"
  /\ \E label \in HdLabels :
       HdStep("delete", label, card_empty, fits_delete_card_(label, hd.head))
  /\ UNCHANGED <<pFILEfits, memAfter, disk, io, rd, gv>>

NextHd == HdAddIval \/ HdAddString \/ HdChangeIval \/ HdDelete

SpecHd == InitHd /\ [][NextHd]_vars

\* the card numbers of the END cards of a header
EndCards(head) == {k \in 1 .. Len(head) : head[k].label = "END"}

\* the header has one END card, the last one, and an add put its card
\* where END was, returned that card number and kept the cards before it
EndKept ==
  /\ EndCards(hd.head) = {Len(hd.head)}
  /\ hd.last.op = "add" =>
       /\ hd.last.ret = Len(hd.last.before) - 1
       /\ hd.last.before[hd.last.ret + 1].label = "END"
       /\ hd.head[hd.last.ret + 1] = hd.last.card
       /\ SubSeq(hd.head, 1, hd.last.ret) = SubSeq(hd.last.before, 1, hd.last.ret)
       /\ Len(hd.head) = Len(hd.last.before) + 1

\* C19 as stated: while no call was given the label END, the header has
\* exactly one END card, the last one, and each add puts its card where
\* END was, returns that position and leaves the earlier cards unchanged.
C19_Claim == (hd.pc = "hd" /\ ~hd.endLit) => EndKept

\* C19 as amended: the same while no call was given a label that is END
\* once converted to upper case.
C19_End == (hd.pc = "hd" /\ ~hd.endUsed) => EndKept

\* an add to a header that already holds an added card, with no END label
\* so far
C19_Witness ==
  /\ hd.pc = "hd" /\ ~hd.endUsed
  /\ hd.last.op = "add"
  /\ hd.last.label = "naxis"
  /\ Len(hd.head) = MaxCards
  /\ hd.head[2].label = "LONGLABE"

\* the first card whose label is pLabel when case is ignored
FirstNoCase(pLabel, head) ==
  IF \E k \in 1 .. Len(head) : ToUpper(head[k].label) = ToUpper(Label8(pLabel))
  THEN (CHOOSE k \in 1 .. Len(head) :
          /\ ToUpper(head[k].label) = ToUpper(Label8(pLabel))
          /\ \A m \in 1 .. (k - 1) : ToUpper(head[m].label) # ToUpper(Label8(pLabel))) - 1
  ELSE Len(head)

\* C20: fits_find_card_ and the typed getters return the first card whose
\* label equals the requested one when case is ignored, and report
\* not-found only when there is none; a card added under a lower-case
\* label is found under that label.
C20_Claim ==
  (hd.pc = "hd" /\ hd.last.op = "add") =>
    /\ \A l \in HdLabels :
         /\ fits_find_card_(l, hd.head) = FirstNoCase(l, hd.head)
         /\ fits_get_card_ival_(l, hd.head, 0).iret = (FirstNoCase(l, hd.head) < Len(hd.head))
         /\ fits_get_card_string_(l, hd.head).iret = (FirstNoCase(l, hd.head) < Len(hd.head))
    /\ fits_find_card_(hd.last.label, hd.head) < Len(hd.head)

(***************************************************************************)
(* SpecRt: a header is created and grown by fits_add_card_ival_,           *)
(* fits_add_card_rval_ and fits_add_card_string_, written by               *)
(* fits_write_fits_header_ to a file just opened and read back by          *)
(* fits_read_fits_header_, from the whole file or from a file cut after    *)
(* its first card.                                                         *)
(***************************************************************************)
HdReals == {[m |-> 15, e |-> 0 - 1], [m |-> 0 - 123456789, e |-> 0]}

\* sprintf "NAXIS%-3d" for one digit
NaxisLabel(iAxis) ==
  <<"NAXIS1", "NAXIS2", "NAXIS3", "NAXIS4", "NAXIS5", "NAXIS6", "NAXIS7", "NAXIS8",
    "NAXIS9">>[iAxis]

\* the while loop of fits_read_fits_header_ over fits_get_next_card_:
\* [head, eof, n], n the cards read.  eof: the file ends before an END
\* card; every fgetc then returns EOF, no card read is the END card and
\* the loop does not end.
RECURSIVE ReadCards(_, _, _)
ReadCards(cards, i, head) ==
  IF i > Len(cards) THEN [head |-> head, eof |-> TRUE, n |-> i - 1]
  ELSE IF cards[i].label = card_end.label THEN [head |-> head, eof |-> FALSE, n |-> i]
  ELSE IF cards[i] = card_empty THEN ReadCards(cards, i + 1, head)
  ELSE ReadCards(cards, i + 1, fits_add_card_(cards[i], head).head)

\* fits_purge_blank_cards_
RECURSIVE fits_purge_blank_cards_(_)
fits_purge_blank_cards_(head) ==
  LET r == TheOne({fits_delete_card_(card_empty.label, h) : h \in {head}})
  IN IF r.ret # Len(r.head) THEN fits_purge_blank_cards_(r.head) ELSE r.head

\* the loop of fits_add_required_cards_ over the axes from iAxis on
RECURSIVE AddAxes(_, _, _)
AddAxes(iAxis, numAxes, head) ==
  IF iAxis > numAxes THEN head
  ELSE AddAxes(iAxis + 1, numAxes,
               IF fits_get_card_ival_(NaxisLabel(iAxis), head, 0).iret THEN head
               ELSE fits_change_card_ival_(1, NaxisLabel(iAxis), head).head)

\* fits_add_required_cards_; garbage is what numAxes held before
\* fits_compute_axes_
fits_add_required_cards_(head, garbage) ==
  LET h1 == IF fits_get_card_ival_("NAXIS", head, 0).iret THEN head
            ELSE fits_change_card_ival_(0, "NAXIS", head).head
      numAxes == fits_get_card_ival_("NAXIS", h1, garbage).ival
  IN AddAxes(1, numAxes, h1)

\* fits_read_fits_header_ on the cards of a file: [head, eof, pos], pos
\* the file position it leaves
fits_read_fits_header_(cards, garbage) ==
  LET r == TheOne({ReadCards(c, 1, << >>) : c \in {cards}})
      h1 == fits_add_card_(card_end, r.head).head
      jCard == ((CardBytes * r.n) % BlockBytes) \div CardBytes
  IN [head |-> fits_add_required_cards_(fits_purge_blank_cards_(h1), garbage),
      eof |-> r.eof,
      pos |-> CardBytes * (r.n + IF jCard # 0 THEN BlockCards - jCard ELSE 0)]

\* fits_skip_header_ on the cards of a file, from card i: [eof, pos]
RECURSIVE SkipCards(_, _)
SkipCards(cards, i) ==
  IF i > Len(cards) THEN [eof |-> TRUE, pos |-> CardBytes * Len(cards)]
  ELSE IF cards[i].label = card_end.label
       THEN [eof |-> FALSE,
             pos |-> CardBytes * i
                     + (IF ((CardBytes * i) % BlockBytes) \div CardBytes # 0
                        THEN CardBytes * (BlockCards - ((CardBytes * i) % BlockBytes)
                                                         \div CardBytes)
                        ELSE 0)]
       ELSE SkipCards(cards, i + 1)

InitRt ==
  /\ pFILEfits = [i \in Slots |-> NULL]
  /\ memAfter = [i \in {IO_FOPEN_MAX, IO_FOPEN_MAX + 1} |-> NULL]
  /\ disk = Paths
  /\ io = IdleIO
  /\ rd = IdleRd
  /\ gv = IdleGv
  /\ hd = [pc |-> "built", head |-> fits_create_fits_header_, adds |-> << >>]

RtAddIval ==
  /\ hd.pc = "built" /\ Len(hd.head) < MaxCards
  /\ \E label \in HdLabels, ival \in HdInts :
       hd' = [pc |-> "built", head |-> fits_add_card_ival_(ival, label, hd.head).head,
              adds |-> Append(hd.adds, [kind |-> "ival", label |-> label, val |-> ival])]
  /\ UNCHANGED <<pFILEfits, memAfter, disk, io, rd, gv>>

RtAddRval ==
  /\ hd.pc = "built" /\ Len(hd.head) < MaxCards
  /\ \E label \in HdLabels, rval \in HdReals :
       hd' = [pc |-> "built", head |-> fits_add_card_rval_(rval, label, hd.head).head,
              adds |-> Append(hd.adds, [kind |-> "rval", label |-> label, val |-> rval])]
  /\ UNCHANGED <<pFILEfits, memAfter, disk, io, rd, gv>>

RtAddString ==
  /\ hd.pc = "built" /\ Len(hd.head) < MaxCards
  /\ \E label \in HdLabels, str \in HdStrs :
       hd' = [pc |-> "built", head |-> fits_add_card_string_(str, label, hd.head).head,
              adds |-> Append(hd.adds, [kind |-> "string", label |-> label, val |-> str])]
  /\ UNCHANGED <<pFILEfits, memAfter, disk, io, rd, gv>>

RtWriteRead ==
  /\ hd.pc = "built"
  /\ \E garbage \in GarbageVals, whole \in BOOLEAN :
       LET written == fits_write_fits_header_(hd.head)
           file == IF whole THEN written ELSE SubSeq(written, 1, 1)
           r == fits_read_fits_header_(file, garbage)
           sk == SkipCards(file, 1)
       IN hd' = [pc |-> "read", head |-> hd.head, adds |-> hd.adds,
                 whole |-> whole, nFile |-> Len(file), back |-> r.head,
                 eof |-> r.eof, pos |-> r.pos, skip |-> sk]
  /\ UNCHANGED <<pFILEfits, memAfter, disk, io, rd, gv>>

NextRt == RtAddIval \/ RtAddRval \/ RtAddString \/ RtWriteRead

SpecRt == InitRt /\ [][NextRt]_vars

\* two reals agree to 7 significant digits
Close7(a, b) ==
  IF a.m = 0 \/ b.m = 0 THEN a.m = b.m
  ELSE /\ (a.m < 0) = (b.m < 0)
       /\ Norm8(Abs(a.m), a.e).e = Norm8(Abs(b.m), b.e).e
       /\ Abs(Norm8(Abs(a.m), a.e).m - Norm8(Abs(b.m), b.e).m) <= 10

\* the getter of its kind, called on head with the label and for the value
\* of an add, succeeds and gives that value
GetsBack(add, head) ==
  CASE add.kind = "ival" ->
         \A g \in GarbageVals :
           fits_get_card_ival_(add.label, head, g) = [iret |-> TRUE, ival |-> add.val]
    [] add.kind = "rval" ->
         \A g \in GarbageVals :
           /\ fits_get_card_rval_(add.label, head, g).iret
           /\ Close7(fits_get_card_rval_(add.label, head, g).rval, add.val)
    [] add.kind = "string" ->
         /\ fits_get_card_string_(add.label, head).iret
         /\ fits_get_card_string_(add.label, head).str = add.val

\* C18: after the header is written and read back, every card added gives
\* its value back through the getter of its kind (reals to 7 significant
\* digits), and the cards are in the order they had.
C18_Claim ==
  (hd.pc = "read" /\ hd.whole) =>
    /\ \A k \in 1 .. Len(hd.adds) : GetsBack(hd.adds[k], hd.back)
    /\ Len(hd.back) >= Len(hd.head)
    /\ SubSeq(hd.back, 1, Len(hd.head) - 1) = SubSeq(hd.head, 1, Len(hd.head) - 1)
    /\ hd.back[Len(hd.back)] = card_end

\* the change left by the last call: the first card of before with the
\* label of the new card is replaced in place and nothing else moves, or,
\* when before has no such card, the header is one card longer, holds the
\* new card at the returned position and its non-END cards stayed in place
ChangeKept ==
  LET before == hd.last.before
      c == hd.last.card
      first == FirstNoCase(hd.last.label, before)
  IN IF first < Len(before)
     THEN /\ hd.head = [before EXCEPT ![first + 1] = c]
          /\ hd.last.ret = first
     ELSE /\ Len(hd.head) = Len(before) + 1
          /\ hd.last.ret < Len(hd.head)
          /\ hd.head[hd.last.ret + 1] = c
          /\ \A k \in 1 .. Len(before) :
               before[k].label # "END" => hd.head[k] = before[k]

\* C21 as stated: fits_change_card_ival_ overwrites the first card with
\* the label in place, or adds exactly one card and leaves the non-END
\* cards where they were.
C21_Claim == (hd.pc = "hd" /\ hd.last.op = "change") => ChangeKept

\* C21 as amended: the same while no call was given a label that is END
\* once converted to upper case.
C21_Change == (hd.pc = "hd" /\ hd.last.op = "change" /\ ~hd.endUsed) => ChangeKept

\* a change that overwrote the first of two cards of its label
C21_Witness ==
  /\ hd.pc = "hd" /\ hd.last.op = "change" /\ ~hd.endUsed
  /\ hd.last.label = "naxis"
  /\ hd.last.ret = 1
  /\ Len(hd.last.before) = MaxCards
  /\ hd.last.before[2].label = "NAXIS" /\ hd.last.before[3].label = "NAXIS"
  /\ hd.head[2] # hd.last.before[2]

\* C22: fits_delete_card_ removes the first card whose label is the
\* requested one (labels compared without regard to case), returns its
\* position and moves the later cards down by one; when no card matches,
\* the header is unchanged and the card count is returned.
C22_Claim ==
  (hd.pc = "hd" /\ hd.last.op = "delete") =>
    LET before == hd.last.before
        first == FirstNoCase(hd.last.label, before)
    IN IF first < Len(before)
       THEN /\ hd.last.ret = first
            /\ hd.head = SubSeq(before, 1, first) \o SubSeq(before, first + 2, Len(before))
       ELSE /\ hd.last.ret = Len(before)
            /\ hd.head = before

\* the values fits_get_card_ival_ can give for the label: one value when
\* the first card of the label holds an integer, none when there is no
\* such card
IvalsOf(pLabel, head) ==
  {fits_get_card_ival_(pLabel, head, g).ival :
     g \in {x \in GarbageVals : fits_get_card_ival_(pLabel, head, x).iret}}

HasCard(pLabel, head) == \E k \in 1 .. Len(head) : head[k].label = pLabel

\* C23: the header read back holds a NAXIS card and a NAXISk card for
\* every k up to the value of NAXIS; a NAXIS card that was missing holds
\* 0 and a NAXISk card that was missing holds 1, a NAXIS card that was
\* written keeps its value, and fits_add_required_cards_ applied again
\* changes nothing.
C23_Claim ==
  (hd.pc = "read" /\ hd.whole) =>
    LET file == fits_write_fits_header_(hd.head)
        wrote == HasCard("NAXIS", ReadCards(file, 1, << >>).head)
    IN /\ HasCard("NAXIS", hd.back)
       /\ ~wrote => IvalsOf("NAXIS", hd.back) = {0}
       /\ wrote => IvalsOf("NAXIS", hd.back) = IvalsOf("NAXIS", hd.head)
       /\ \A naxis \in IvalsOf("NAXIS", hd.back) :
            Cardinality(IvalsOf("NAXIS", hd.back)) = 1 =>
              \A k \in 1 .. naxis : IvalsOf(NaxisLabel(k), hd.back) = {1}
       /\ \A g \in GarbageVals : fits_add_required_cards_(hd.back, g) = hd.back

(***************************************************************************)
(* SpecCap: fits_add_card_ and fits_delete_card_ from an empty header,     *)
(* with the capacity of the buffer *ppHead in cards and the card slots     *)
(* each call writes.                                                       *)
(***************************************************************************)
HeadCapacity_m(nHead, cap) == IF nHead = 0 THEN BlockCards ELSE cap

\* the capacity after the test of fits_add_card_ for more memory
HeadCapacity(nHead, cap) == IF nHead % BlockCards = 0 THEN BlockCards + nHead ELSE cap

InitCap ==
  /\ pFILEfits = [i \in Slots |-> NULL]
  /\ memAfter = [i \in {IO_FOPEN_MAX, IO_FOPEN_MAX + 1} |-> NULL]
  /\ disk = Paths
  /\ io = IdleIO
  /\ rd = IdleRd
  /\ gv = IdleGv
  /\ hd = [pc |-> "cap", head |-> << >>, cap |-> 0,
           last |-> [op |-> "none", n |-> 0, cap |-> 0, slots |-> {}]]

CapAdd ==
  /\ hd.pc = "cap" /\ Len(hd.head) <= MaxHead
  /\ \E label \in IF Len(hd.head) < 3 THEN {"NAXIS", "END"} ELSE {"NAXIS"} :
       LET nHead == Len(hd.head)
           numCardEnd == fits_find_card_(card_end.label, hd.head)
       IN hd' = [pc |-> "cap",
                 head |-> fits_add_card_(Card(label, << >>), hd.head).head,
                 cap |-> HeadCapacity(nHead, hd.cap),
                 last |-> [op |-> "add", n |-> nHead, cap |-> hd.cap,
                           slots |-> IF nHead > 0 /\ numCardEnd < nHead
                                     THEN {numCardEnd + 1, numCardEnd}
                                     ELSE {nHead}]]
  /\ UNCHANGED <<pFILEfits, memAfter, disk, io, rd, gv>>

CapDelete ==
  /\ hd.pc = "cap"
  /\ \E label \in {"NAXIS", "END"} :
       LET nHead == Len(hd.head)
           iCard == fits_find_card_(label, hd.head)
       IN hd' = [pc |-> "cap",
                 head |-> fits_delete_card_(label, hd.head).head,
                 cap |-> hd.cap,
                 last |-> [op |-> "delete", n |-> nHead, cap |-> hd.cap,
                           slots |-> IF iCard < nHead THEN iCard .. (nHead - 1) ELSE {}]]
  /\ UNCHANGED <<pFILEfits, memAfter, disk, io, rd, gv>>

NextCap == CapAdd \/ CapDelete

SpecCap == InitCap /\ [][NextCap]_vars

\* C25: the buffer is reallocated, to the card count plus 36, exactly by
\* the adds made at a card count that is a multiple of 36, and every card
\* slot an add or a delete writes lies below the capacity of the buffer.
C25_Capacity ==
  hd.pc = "cap" =>
    /\ hd.last.op = "add" =>
         hd.cap = IF hd.last.n % 36 = 0 THEN hd.last.n + 36 ELSE hd.last.cap
    /\ hd.last.op = "delete" => hd.cap = hd.last.cap
    /\ \A slot \in hd.last.slots : slot < hd.cap
    /\ Len(hd.head) <= hd.cap

\* an add at 36 cards, after a delete had brought the count down to 36
C25_Witness ==
  /\ hd.pc = "cap" /\ hd.last.op = "add"
  /\ hd.last.n = 36 /\ hd.last.cap = 72 /\ hd.cap = 72
  /\ 36 \in hd.last.slots

\* C28: fits_read_fits_header_ and fits_skip_header_ end on every file,
\* also on one that ends before a card labelled END, and on a file with an
\* END card both leave the position at the end of the block that holds it.
C28_Claim ==
  hd.pc = "read" =>
    /\ ~hd.eof /\ ~hd.skip.eof
    /\ hd.pos = hd.skip.pos
    /\ hd.pos % BlockBytes = 0
    /\ hd.pos <= CardBytes * hd.nFile

====
